---- MODULE Spec2Model ----
(***************************************************************************)
(* Model of the snowflakeid-producer package: the CustomSnowflakeId        *)
(* wrapper (src/src/customSnowflake.js) around SnowflakeIdGenerator        *)
(* (src/src/snowflake.js).                                                 *)
(*                                                                         *)
(* JavaScript values are records [t |-> type tag, v |-> payload].  BigInt  *)
(* values are TLA+ integers; the bit operators are the two's-complement    *)
(* ones of BigInt.  Strings are sequences of one-character strings, so     *)
(* that BigInt.prototype.toString and BigInt(string) are real conversions. *)
(*                                                                         *)
(* Time is a scaled millisecond axis: clock readings are 0..MaxClock and   *)
(* DefaultEpoch stands for 2024-01-01T00:00:00.000Z.  timestampBits is 41  *)
(* in the source; here it is a small width so that 2^(timestampBits + 22)  *)
(* (the position of the sign bit) is an integer TLC can compute.  The code *)
(* never reads timestampBits or maxTimestamp after setting them.           *)
(***************************************************************************)
EXTENDS Integers, Sequences, FiniteSets, TLC

VARIABLES opts, status, snowflake, pc, issued, ret, call, networkInterfaces

vars == <<opts, status, snowflake, pc, issued, ret, call, networkInterfaces>>

----------------------------------------------------------------------------
(* Bounds of the model *)

MaxClock == 2

MaxIds == 3

timestampBits == 5

(* Program constants *)

DefaultEpoch == 1

TotalBits == 22

DefaultMachineIdBits == 10

DefaultSequenceBits == 12

Gens == {1, 2}

Clock == 0 .. MaxClock

----------------------------------------------------------------------------
(* JavaScript values *)

Undefined == [t |-> "undefined", v |-> 0]

Null == [t |-> "null", v |-> 0]

Num(n) == [t |-> "number", v |-> n]

DateOf(n) == [t |-> "date", v |-> n]

\* The number n + 1/2: typeof gives 'number', BigInt() refuses it
Half(n) == [t |-> "fraction", v |-> n]

BigIntOf(n) == [t |-> "bigint", v |-> n]

Str(s) == [t |-> "string", v |-> s]

IsNullish(x) == x.t \in {"undefined", "null"}

\* new Date(x).getTime(): a number or a Date gives its time value, undefined
\* gives NaN (here: no value, every comparison with it is false).
GetTime(x) == IF x.t \in {"number", "date"} THEN [nan |-> FALSE, v |-> x.v]
              ELSE [nan |-> TRUE, v |-> 0]

\* ToBoolean: 0 is falsy, a Date object is truthy, undefined and null are falsy.
Truthy(x) == CASE x.t = "number" -> x.v # 0
               [] x.t = "date" -> TRUE
               [] x.t = "string" -> x.v # <<>>
               [] OTHER -> FALSE

----------------------------------------------------------------------------
(* BigInt arithmetic *)

Pow2(n) == 2 ^ n

\* a << n, for n >= 0
Shl(a, n) == a * Pow2(n)

\* a >> n, for n >= 0 (arithmetic shift: rounds towards minus infinity)
Shr(a, n) == a \div Pow2(n)

RECURSIVE BitOr(_, _)
BitOr(a, b) ==
    IF a = 0 THEN b
    ELSE IF b = 0 THEN a
    ELSE IF a = -1 \/ b = -1 THEN -1
    ELSE 2 * BitOr(a \div 2, b \div 2)
         + (IF a % 2 = 1 \/ b % 2 = 1 THEN 1 ELSE 0)

RECURSIVE BitAnd(_, _)
BitAnd(a, b) ==
    IF a = 0 \/ b = 0 THEN 0
    ELSE IF a = -1 THEN b
    ELSE IF b = -1 THEN a
    ELSE 2 * BitAnd(a \div 2, b \div 2)
         + (IF a % 2 = 1 /\ b % 2 = 1 THEN 1 ELSE 0)

----------------------------------------------------------------------------
(* Decimal strings *)

DigitChars == <<"0", "1", "2", "3", "4", "5", "6", "7", "8", "9">>

RECURSIVE NatToString(_)
NatToString(n) ==
    IF n < 10 THEN <<DigitChars[n + 1]>>
    ELSE NatToString(n \div 10) \o <<DigitChars[(n % 10) + 1]>>

\* BigInt.prototype.toString()
BigIntToString(n) == IF n < 0 THEN <<"-">> \o NatToString(-n) ELSE NatToString(n)

IsDigit(c) == \E d \in 0 .. 9 : DigitChars[d + 1] = c

HexChars == <<"0", "1", "2", "3", "4", "5", "6", "7", "8", "9",
              "a", "b", "c", "d", "e", "f">>

IsHexDigit(c) == \E d \in 0 .. 15 : HexChars[d + 1] = c

HexValue(c) == CHOOSE d \in 0 .. 15 : HexChars[d + 1] = c

RECURSIVE DigitsValue(_, _)
DigitsValue(s, base) ==
    IF s = <<>> THEN 0
    ELSE base * DigitsValue(SubSeq(s, 1, Len(s) - 1), base) + HexValue(s[Len(s)])

AllDigits(s) == s # <<>> /\ \A i \in 1 .. Len(s) : IsDigit(s[i])

AllHexDigits(s) == s # <<>> /\ \A i \in 1 .. Len(s) : IsHexDigit(s[i])

RECURSIVE TrimLeft(_)
TrimLeft(s) == IF s # <<>> /\ s[1] = " " THEN TrimLeft(Tail(s)) ELSE s

RECURSIVE TrimRight(_)
TrimRight(s) == IF s # <<>> /\ s[Len(s)] = " "
                THEN TrimRight(SubSeq(s, 1, Len(s) - 1)) ELSE s

Thrown(msg) == [ok |-> FALSE, val |-> 0, err |-> msg]

Value(n) == [ok |-> TRUE, val |-> n, err |-> ""]

\* StringToBigInt of ECMAScript: white space is trimmed, the empty string is
\* 0n, a decimal literal may carry a sign, a 0x literal is hexadecimal and
\* carries none; anything else is a SyntaxError.
StringToBigInt(s) ==
    LET u == TrimRight(TrimLeft(s)) IN
    IF u = <<>> THEN Value(0)
    ELSE IF AllDigits(u) THEN Value(DigitsValue(u, 10))
    ELSE IF u[1] = "-" /\ AllDigits(Tail(u)) THEN Value(-DigitsValue(Tail(u), 10))
    ELSE IF u[1] = "+" /\ AllDigits(Tail(u)) THEN Value(DigitsValue(Tail(u), 10))
    ELSE IF Len(u) > 2 /\ u[1] = "0" /\ u[2] = "x" /\ AllHexDigits(SubSeq(u, 3, Len(u)))
         THEN Value(DigitsValue(SubSeq(u, 3, Len(u)), 16))
    ELSE Thrown("SyntaxError")

\* BigInt(x)
ToBigInt(x) ==
    CASE x.t = "string" -> StringToBigInt(x.v)
      [] x.t = "number" -> Value(x.v)
      [] x.t = "bigint" -> Value(x.v)
      [] OTHER -> Thrown("TypeError")

----------------------------------------------------------------------------
(* SnowflakeIdGenerator: construction *)

\* ToNumber, as the relational operators apply it to a non-BigInt operand
ToNumber(x) == IF x.t \in {"number", "date", "bigint"} THEN x.v ELSE 0

\* The value the loops of generateMachineId leave in macAddress: every
\* interface with a non-internal IPv4 address assigns it, the inner break
\* leaves only the inner loop.  "" is [found |-> FALSE].
RECURSIVE ScanInterfaces(_, _)
ScanInterfaces(interfaces, macAddress) ==
    IF interfaces = <<>> THEN macAddress
    ELSE LET values == Head(interfaces)
             hits == {i \in 1 .. Len(values) :
                         values[i].family = "IPv4" /\ ~values[i].internal}
             first == CHOOSE i \in hits : \A j \in hits : i <= j
         IN ScanInterfaces(Tail(interfaces),
                           IF hits = {} THEN macAddress
                           ELSE [found |-> TRUE, mac |-> values[first].mac])

generateMachineId(interfaces, maxMachineId) ==
    LET macAddress == ScanInterfaces(interfaces, [found |-> FALSE, mac |-> 0])
        machineId == IF macAddress.found THEN macAddress.mac ELSE 0
    IN BitAnd(machineId, maxMachineId)

\* new SnowflakeIdGenerator(machineIdBits, sequenceBits, machineId, firstTimestamp)
NewGenerator(machineIdBits, sequenceBits, machineId, firstTimestamp, interfaces) ==
    LET maxMachineId == Pow2(machineIdBits) - 1
        first == IF Truthy(firstTimestamp) THEN DateOf(GetTime(firstTimestamp).v)
                 ELSE DateOf(DefaultEpoch)
    IN [timestampBits |-> timestampBits,
        machineIdBits |-> machineIdBits,
        sequenceBits |-> sequenceBits,
        maxTimestamp |-> Pow2(timestampBits) - 1,
        maxMachineId |-> maxMachineId,
        maxSequence |-> Pow2(sequenceBits) - 1,
        machineId |-> IF IsNullish(machineId)
                      THEN generateMachineId(interfaces, maxMachineId)
                      ELSE ToBigInt(machineId).val,
        sequence |-> 0,
        lastTimestamp |-> first,
        firstTimestamp |-> first,
        EPOCH |-> first.v]

NoGenerator == [timestampBits |-> 0, machineIdBits |-> 0, sequenceBits |-> 0,
                maxTimestamp |-> 0, maxMachineId |-> 0, maxSequence |-> 0,
                machineId |-> 0, sequence |-> 0, lastTimestamp |-> Undefined,
                firstTimestamp |-> Undefined, EPOCH |-> 0]

----------------------------------------------------------------------------
(* CustomSnowflakeId: construction *)

ValidKeys == {"MachineIdBits", "SequenceBits", "MachineId", "FirstTimestamp"}

\* The range test of lines 102-106.  It reads the local machineId, which is
\* still null at that point, and not the option MachineId.
MachineIdOutOfRange(MachineId, machineId, machineIdBits) ==
    ToNumber(machineId) < 0 \/ ToNumber(machineId) > Pow2(machineIdBits) - 1

\* lines 94-99: the two tests on the bit widths
BitsRejectedOffByOne(machineIdBits, sequenceBits) ==
    \/ machineIdBits + sequenceBits # TotalBits
    \/ machineIdBits < 0 \/ sequenceBits < 0

BitsRejected(machineIdBits, sequenceBits) ==
    \/ machineIdBits + sequenceBits # TotalBits
    \/ machineIdBits <= 0 \/ sequenceBits <= 0

\* (includes(FirstTimestamp) && getTime() < 0) || getTime() > Date.now()
FirstTimestampRejected(o, now) ==
    LET time == GetTime(o.FirstTimestamp) IN
    \/ "FirstTimestamp" \in o.keys /\ ~time.nan /\ time.v < 0
    \/ ~time.nan /\ time.v > now

\* The constructor with the two default widths exchanged
NewCustomSwappedDefaults(o, now, interfaces) ==
    LET opt == IF o.shape = "undefined" THEN [o EXCEPT !.keys = {}] ELSE o
        bothBits == ~IsNullish(opt.MachineIdBits) /\ ~IsNullish(opt.SequenceBits)
        machineIdBits ==
            IF bothBits THEN opt.MachineIdBits.v
            ELSE IF ~IsNullish(opt.MachineIdBits) THEN opt.MachineIdBits.v
            ELSE IF ~IsNullish(opt.SequenceBits) THEN TotalBits - opt.SequenceBits.v
            ELSE DefaultSequenceBits
        sequenceBits ==
            IF bothBits THEN opt.SequenceBits.v
            ELSE IF ~IsNullish(opt.MachineIdBits) THEN TotalBits - machineIdBits
            ELSE IF ~IsNullish(opt.SequenceBits) THEN opt.SequenceBits.v
            ELSE DefaultMachineIdBits
        machineId == IF ~IsNullish(opt.MachineId) THEN opt.MachineId ELSE Null
        firstTimestamp == IF Truthy(opt.FirstTimestamp)
                          THEN DateOf(GetTime(opt.FirstTimestamp).v)
                          ELSE DateOf(DefaultEpoch)
        fail(msg) == [ok |-> FALSE, err |-> msg, gen |-> NoGenerator]
    IN
    IF o.shape \in {"primitive", "array", "null"}
        THEN fail("Options must be an object")
    ELSE IF opt.keys \ ValidKeys # {}
        THEN fail("Invalid option parameter")
    ELSE IF "MachineIdBits" \in opt.keys /\ opt.MachineIdBits.t # "number"
        THEN fail("MachineIdBits must be a number")
    ELSE IF "SequenceBits" \in opt.keys /\ opt.SequenceBits.t # "number"
        THEN fail("SequenceBits must be a number")
    ELSE IF "MachineId" \in opt.keys /\ opt.MachineId.t # "number"
        THEN fail("MachineId must be a number")
    ELSE IF "FirstTimestamp" \in opt.keys /\ opt.FirstTimestamp.t \notin {"number", "date"}
        THEN fail("FirstTimestamp must be a number or date instance")
    ELSE IF FirstTimestampRejected(opt, now)
        THEN fail("FirstTimestamp must be between 0 and current timestamp")
    ELSE IF BitsRejected(machineIdBits, sequenceBits)
        THEN fail(IF machineIdBits + sequenceBits # TotalBits
                  THEN "Sum of MachineIdBits and SequenceBits must be equal to 22"
                  ELSE "MachineIdBits and SequenceBits must be greater than 0")
    ELSE IF ~IsNullish(opt.MachineId)
            /\ MachineIdOutOfRange(opt.MachineId, Null, machineIdBits)
        THEN fail("MachineId must be between 0 and max")
    ELSE [ok |-> TRUE, err |-> "",
          gen |-> NewGenerator(machineIdBits, sequenceBits, machineId,
                               firstTimestamp, interfaces)]

\* The constructor of CustomSnowflakeId: [ok, err, gen]
NewCustom(o, now, interfaces) ==
    LET opt == IF o.shape = "undefined" THEN [o EXCEPT !.keys = {}] ELSE o
        bothBits == ~IsNullish(opt.MachineIdBits) /\ ~IsNullish(opt.SequenceBits)
        machineIdBits ==
            IF bothBits THEN opt.MachineIdBits.v
            ELSE IF ~IsNullish(opt.MachineIdBits) THEN opt.MachineIdBits.v
            ELSE IF ~IsNullish(opt.SequenceBits) THEN TotalBits - opt.SequenceBits.v
            ELSE DefaultMachineIdBits
        sequenceBits ==
            IF bothBits THEN opt.SequenceBits.v
            ELSE IF ~IsNullish(opt.MachineIdBits) THEN TotalBits - machineIdBits
            ELSE IF ~IsNullish(opt.SequenceBits) THEN opt.SequenceBits.v
            ELSE DefaultSequenceBits
        machineId == IF ~IsNullish(opt.MachineId) THEN opt.MachineId ELSE Null
        firstTimestamp == IF Truthy(opt.FirstTimestamp)
                          THEN DateOf(GetTime(opt.FirstTimestamp).v)
                          ELSE DateOf(DefaultEpoch)
        fail(msg) == [ok |-> FALSE, err |-> msg, gen |-> NoGenerator]
    IN
    IF o.shape \in {"primitive", "array", "null"}
        THEN fail("Options must be an object")
    ELSE IF opt.keys \ ValidKeys # {}
        THEN fail("Invalid option parameter")
    ELSE IF "MachineIdBits" \in opt.keys /\ opt.MachineIdBits.t # "number"
        THEN fail("MachineIdBits must be a number")
    ELSE IF "SequenceBits" \in opt.keys /\ opt.SequenceBits.t # "number"
        THEN fail("SequenceBits must be a number")
    ELSE IF "MachineId" \in opt.keys /\ opt.MachineId.t # "number"
        THEN fail("MachineId must be a number")
    ELSE IF "FirstTimestamp" \in opt.keys /\ opt.FirstTimestamp.t \notin {"number", "date"}
        THEN fail("FirstTimestamp must be a number or date instance")
    ELSE IF FirstTimestampRejected(opt, now)
        THEN fail("FirstTimestamp must be between 0 and current timestamp")
    ELSE IF BitsRejected(machineIdBits, sequenceBits)
        THEN fail(IF machineIdBits + sequenceBits # TotalBits
                  THEN "Sum of MachineIdBits and SequenceBits must be equal to 22"
                  ELSE "MachineIdBits and SequenceBits must be greater than 0")
    ELSE IF ~IsNullish(opt.MachineId)
            /\ MachineIdOutOfRange(opt.MachineId, Null, machineIdBits)
        THEN fail("MachineId must be between 0 and max")
    ELSE [ok |-> TRUE, err |-> "",
          gen |-> NewGenerator(machineIdBits, sequenceBits, machineId,
                               firstTimestamp, interfaces)]

----------------------------------------------------------------------------
(* SnowflakeIdGenerator: operations *)

\* timestamp < this.lastTimestamp: a BigInt against a Date (before the first
\* id) or a BigInt; both compare by mathematical value.
\* The comparison of line 69 letting a reading one millisecond back through
LessByTwo(timestamp, lastTimestamp) == timestamp < ToNumber(lastTimestamp) - 1

Less(timestamp, lastTimestamp) == timestamp < ToNumber(lastTimestamp)

\* this.lastTimestamp === timestamp: strict equality, false for a Date object
StrictEquals(lastTimestamp, timestamp) ==
    lastTimestamp.t = "bigint" /\ lastTimestamp.v = timestamp

\* lines 84-89: the id composed from the generator's fields, as a string
ComposeId(gen, timestamp) ==
    BigIntToString(
        BitOr(BitOr(Shl(timestamp - gen.EPOCH, gen.machineIdBits + gen.sequenceBits),
                    Shl(gen.machineId, gen.sequenceBits)),
              gen.sequence))

\* The timestamp argument of the boundary functions, lines 93-100
TimestampArg(timestamp) ==
    IF timestamp.t = "number" THEN Value(timestamp.v)
    ELSE IF timestamp.t = "fraction" THEN Thrown("RangeError")
    ELSE IF timestamp.t = "date" THEN Value(timestamp.v)
    ELSE Thrown("Timestamp must be a number or date instance")

NoParsed == [timestamp |-> Undefined, machineId |-> 0, sequence |-> 0]

Returned(id) == [ok |-> TRUE, id |-> id, parsed |-> NoParsed, err |-> ""]

Parsed(p) == [ok |-> TRUE, id |-> <<>>, parsed |-> p, err |-> ""]

Throws(msg) == [ok |-> FALSE, id |-> <<>>, parsed |-> NoParsed, err |-> msg]

\* getFirstIdAtTimestamp shifting by the sequence width only
getFirstIdAtTimestampShort(gen, timestamp) ==
    LET ts == TimestampArg(timestamp) IN
    IF ~ts.ok THEN Throws(ts.err)
    ELSE IF ts.val < gen.EPOCH
        THEN Throws("Timestamp must be greater than or equal to firstTimestamp")
    ELSE Returned(BigIntToString(Shl(ts.val - gen.EPOCH, gen.sequenceBits)))

\* getFirstIdAtTimestamp carrying the generator's own machine id
getFirstIdAtTimestampOwnMachine(gen, timestamp) ==
    LET ts == TimestampArg(timestamp) IN
    IF ~ts.ok THEN Throws(ts.err)
    ELSE IF ts.val < gen.EPOCH
        THEN Throws("Timestamp must be greater than or equal to firstTimestamp")
    ELSE Returned(BigIntToString(
            BitOr(BitOr(Shl(ts.val - gen.EPOCH, gen.machineIdBits + gen.sequenceBits),
                        Shl(gen.machineId, gen.sequenceBits)),
                  0)))

getFirstIdAtTimestamp(gen, timestamp) ==
    LET ts == TimestampArg(timestamp) IN
    IF ~ts.ok THEN Throws(ts.err)
    ELSE IF ts.val < gen.EPOCH
        THEN Throws("Timestamp must be greater than or equal to firstTimestamp")
    ELSE Returned(BigIntToString(
            BitOr(BitOr(Shl(ts.val - gen.EPOCH, gen.machineIdBits + gen.sequenceBits),
                        Shl(0, gen.sequenceBits)),
                  0)))

\* getLastIdAtTimestamp refusing the epoch itself
getLastIdAtTimestampAfterEpoch(gen, timestamp) ==
    LET ts == TimestampArg(timestamp) IN
    IF ~ts.ok THEN Throws(ts.err)
    ELSE IF ts.val <= gen.EPOCH
        THEN Throws("Timestamp must be greater than or equal to firstTimestamp")
    ELSE Returned(BigIntToString(
            BitOr(BitOr(Shl(ts.val - gen.EPOCH, gen.machineIdBits + gen.sequenceBits),
                        Shl(gen.maxMachineId, gen.sequenceBits)),
                  gen.maxSequence)))

getLastIdAtTimestamp(gen, timestamp) ==
    LET ts == TimestampArg(timestamp) IN
    IF ~ts.ok THEN Throws(ts.err)
    ELSE IF ts.val < gen.EPOCH
        THEN Throws("Timestamp must be greater than or equal to firstTimestamp")
    ELSE Returned(BigIntToString(
            BitOr(BitOr(Shl(ts.val - gen.EPOCH, gen.machineIdBits + gen.sequenceBits),
                        Shl(gen.maxMachineId, gen.sequenceBits)),
                  gen.maxSequence)))

\* parseId leaving the epoch out of the timestamp
parseIdNoEpoch(gen, id) ==
    LET idBits == ToBigInt(id) IN
    IF ~idBits.ok THEN Throws(idBits.err)
    ELSE Parsed([timestamp |-> DateOf(Shr(idBits.val, gen.machineIdBits + gen.sequenceBits)),
                 machineId |-> BitAnd(Shr(idBits.val, gen.sequenceBits), gen.maxMachineId),
                 sequence |-> BitAnd(idBits.val, gen.maxSequence)])

\* SnowflakeIdGenerator.parseId
parseId(gen, id) ==
    LET idBits == ToBigInt(id) IN
    IF ~idBits.ok THEN Throws(idBits.err)
    ELSE Parsed([timestamp |-> DateOf(Shr(idBits.val, gen.machineIdBits + gen.sequenceBits)
                                      + gen.EPOCH),
                 machineId |-> BitAnd(Shr(idBits.val, gen.sequenceBits), gen.maxMachineId),
                 sequence |-> BitAnd(idBits.val, gen.maxSequence)])

\* CustomSnowflakeId.parseId and SnowflakeId.parseId: any exception becomes one Error
CustomParseId(gen, id) ==
    LET parsedContent == parseId(gen, id) IN
    IF parsedContent.ok THEN parsedContent
    ELSE Throws("snowflakeId must be a valid numeric string")

----------------------------------------------------------------------------
(* Inputs *)

Opt(mb, sb, mid, ft) ==
    [shape |-> "object",
     keys |-> {k \in ValidKeys :
                 \/ k = "MachineIdBits" /\ mb # Undefined
                 \/ k = "SequenceBits" /\ sb # Undefined
                 \/ k = "MachineId" /\ mid # Undefined
                 \/ k = "FirstTimestamp" /\ ft # Undefined},
     MachineIdBits |-> mb, SequenceBits |-> sb, MachineId |-> mid,
     FirstTimestamp |-> ft]

NoOptions == [Opt(Undefined, Undefined, Undefined, Undefined) EXCEPT !.shape = "none"]

BitsOptions ==
    {Opt(mb, sb, Undefined, Undefined) :
        mb \in {Undefined, Num(-1), Num(0), Num(1), Num(21), Num(22)},
        sb \in {Undefined, Num(1), Num(21), Num(22), Num(23)}}

MachineIdOptions ==
    {Opt(Num(b[1]), Num(b[2]), Num(m), Undefined) :
        b \in {<<1, 21>>, <<21, 1>>}, m \in -1 .. 3}
    \cup {Opt(Undefined, Undefined, Num(m), Undefined) : m \in {5, 1023, 1024}}

FirstTimestampOptions ==
    {Opt(Num(21), Num(1), Num(1), ft) :
        ft \in {Num(-1), Num(0), Num(2), Num(MaxClock), Num(MaxClock + 1),
                DateOf(-1), DateOf(0), DateOf(2), Str(<<"2">>)}}

MalformedOptions ==
    {[NoOptions EXCEPT !.shape = sh] : sh \in {"undefined", "null", "array", "primitive"}}
    \cup {[Opt(Undefined, Undefined, Undefined, Undefined) EXCEPT !.keys = {k}] :
            k \in ValidKeys \cup {"machineId"}}
    \cup {Opt(Null, Undefined, Undefined, Undefined),
          Opt(Undefined, Str(<<"1", "2">>), Undefined, Undefined),
          Opt(Undefined, Undefined, Str(<<"1">>), Undefined)}

Options == BitsOptions \cup MachineIdOptions \cup FirstTimestampOptions
           \cup MalformedOptions

\* Two generators of one layout and epoch
OptionsTwo ==
    {Opt(Num(b[1]), Num(b[2]), Num(m), Undefined) :
        b \in {<<1, 21>>, <<21, 1>>}, m \in 0 .. 2}

\* os.networkInterfaces(), as the lists of addresses in listing order; a
\* hardware address is the number parseInt reads from it
Address(family, internal, mac) == [family |-> family, internal |-> internal, mac |-> mac]

InterfaceLists ==
    {<<>>,
     << <<Address("IPv4", TRUE, 0)>> >>,
     << <<Address("IPv4", TRUE, 0)>>, <<Address("IPv6", FALSE, 6), Address("IPv4", FALSE, 5)>> >>,
     << <<Address("IPv4", FALSE, 5), Address("IPv4", FALSE, 7)>>, <<>>,
        <<Address("IPv4", FALSE, 6)>> >>}

QueryTimestamps(gen) ==
    {Num(n) : n \in -1 .. MaxClock + 1}
    \cup {DateOf(n) : n \in 0 .. 2}
    \cup {Num(gen.EPOCH + gen.maxTimestamp), Num(gen.EPOCH + gen.maxTimestamp + 1)}
    \cup {Undefined, Str(<<"1">>), Half(gen.EPOCH)}

IdInputs ==
    {Str(<<>>), Str(<<"n", "o", "t", "-", "a", "-", "n", "u", "m", "b", "e", "r">>),
     Str(<<"-", "5">>), Str(<<"0", "x", "1", "0">>), Str(<<" ", "7", " ">>),
     Str(<<"4", "1", "9", "4", "3", "0", "4">>), Str(<<"1", "2", "a">>),
     Num(5), Null, Undefined}

----------------------------------------------------------------------------
(* State machine *)

Ret(op, arg, r) == [op |-> op, arg |-> arg, ok |-> r.ok, id |-> r.id,
                    parsed |-> r.parsed, err |-> r.err]

NoRet == Ret("none", Undefined, Returned(<<>>))

\* What a call of nextId saw: lastTimestamp and sequence on entry, the
\* timestamp it reached line 74 with, and its latest clock reading
NoCall == [last |-> Undefined, seq |-> 0, t |-> 0, read |-> 0]

Init ==
    /\ opts = [g \in Gens |-> NoOptions]
    /\ status = [g \in Gens |-> "none"]
    /\ snowflake = [g \in Gens |-> NoGenerator]
    /\ pc = [g \in Gens |-> "idle"]
    /\ issued = [g \in Gens |-> <<>>]
    /\ ret = [g \in Gens |-> NoRet]
    /\ call = [g \in Gens |-> NoCall]
    /\ networkInterfaces = [g \in Gens |-> <<>>]

\* new CustomSnowflakeId(options), the clock reading now at line 77
Construct(g, o, now, ifs) ==
    LET r == NewCustom(o, now, ifs) IN
    /\ status[g] = "none"
    /\ opts' = [opts EXCEPT ![g] = o]
    /\ status' = [status EXCEPT ![g] = IF r.ok THEN "ok" ELSE "failed"]
    /\ snowflake' = [snowflake EXCEPT ![g] = r.gen]
    /\ ret' = [ret EXCEPT ![g] = Ret("new", Undefined,
                                     IF r.ok THEN Returned(<<>>) ELSE Throws(r.err))]
    /\ networkInterfaces' = [networkInterfaces EXCEPT ![g] =
                                IF r.ok /\ IsNullish(o.MachineId) THEN ifs ELSE <<>>]
    /\ UNCHANGED <<pc, issued, call>>

\* lines 82-89: the id leaves nextId
Issue(g, gen, timestamp, c) ==
    LET after == [gen EXCEPT !.lastTimestamp = BigIntOf(timestamp)]
        id == ComposeId(after, timestamp)
    IN /\ snowflake' = [snowflake EXCEPT ![g] = after]
       /\ issued' = [issued EXCEPT ![g] = Append(@, id)]
       /\ ret' = [ret EXCEPT ![g] = Ret("newId", Undefined, Returned(id))]
       /\ pc' = [pc EXCEPT ![g] = "idle"]
       /\ call' = [call EXCEPT ![g] = c]
       /\ UNCHANGED <<opts, status, networkInterfaces>>

\* lines 73-82, entered with a reading timestamp >= lastTimestamp
Sequence(g, timestamp, c) ==
    LET gen == snowflake[g] IN
    IF StrictEquals(gen.lastTimestamp, timestamp)
    THEN LET sequence == BitAnd(gen.sequence + 1, gen.maxSequence) IN
         IF sequence = 0
         THEN /\ snowflake' = [snowflake EXCEPT ![g].sequence = sequence]
              /\ pc' = [pc EXCEPT ![g] = "wait"]
              /\ call' = [call EXCEPT ![g] = c]
              /\ UNCHANGED <<opts, status, issued, ret, networkInterfaces>>
         ELSE Issue(g, [gen EXCEPT !.sequence = sequence], timestamp, c)
    ELSE Issue(g, [gen EXCEPT !.sequence = 0], timestamp, c)

\* nextId is called and reads the clock (line 68)
NextIdCall(g, timestamp, cap) ==
    LET c == [last |-> snowflake[g].lastTimestamp, seq |-> snowflake[g].sequence,
              t |-> timestamp, read |-> timestamp]
    IN /\ status[g] = "ok" /\ pc[g] = "idle"
       /\ Len(issued[g]) < cap
       /\ IF Less(timestamp, snowflake[g].lastTimestamp)
          THEN /\ pc' = [pc EXCEPT ![g] = "spin"]
               /\ call' = [call EXCEPT ![g] = c]
               /\ UNCHANGED <<opts, status, snowflake, issued, ret, networkInterfaces>>
          ELSE Sequence(g, timestamp, c)

\* lines 69-71 as an if: the second reading is taken whatever it is
SpinReadOnce(g, timestamp) ==
    /\ pc[g] = "spin"
    /\ Sequence(g, timestamp, [call[g] EXCEPT !.t = timestamp, !.read = timestamp])

\* one more reading in the loop of lines 69-71
SpinRead(g, timestamp) ==
    /\ pc[g] = "spin"
    /\ IF Less(timestamp, snowflake[g].lastTimestamp)
       THEN /\ call' = [call EXCEPT ![g].t = timestamp, ![g].read = timestamp]
            /\ UNCHANGED <<opts, status, snowflake, pc, issued, ret, networkInterfaces>>
       ELSE Sequence(g, timestamp, [call[g] EXCEPT !.t = timestamp, !.read = timestamp])

\* waitNextMillis asking for two milliseconds past lastTimestamp
WaitReadTwoLater(g, timestamp) ==
    /\ pc[g] = "wait"
    /\ IF timestamp <= ToNumber(snowflake[g].lastTimestamp) + 1
       THEN /\ call' = [call EXCEPT ![g].read = timestamp]
            /\ UNCHANGED <<opts, status, snowflake, pc, issued, ret, networkInterfaces>>
       ELSE Issue(g, snowflake[g], timestamp, [call[g] EXCEPT !.read = timestamp])

\* one reading in the loop of waitNextMillis, lines 59-63
WaitRead(g, timestamp) ==
    /\ pc[g] = "wait"
    /\ IF timestamp <= ToNumber(snowflake[g].lastTimestamp)
       THEN /\ call' = [call EXCEPT ![g].read = timestamp]
            /\ UNCHANGED <<opts, status, snowflake, pc, issued, ret, networkInterfaces>>
       ELSE Issue(g, snowflake[g], timestamp, [call[g] EXCEPT !.read = timestamp])

\* getFirstIdAtTimestamp keeping the timestamp it was asked about in
\* this.lastTimestamp
GetFirstIdAtStoring(g) ==
    \E timestamp \in QueryTimestamps(snowflake[g]) :
    LET r == getFirstIdAtTimestamp(snowflake[g], timestamp) IN
    /\ status[g] = "ok" /\ pc[g] = "idle"
    /\ ret' = [ret EXCEPT ![g] = Ret("getFirstIdAt", timestamp, r)]
    /\ snowflake' = [snowflake EXCEPT ![g].lastTimestamp =
                        IF r.ok THEN BigIntOf(ToNumber(timestamp)) ELSE @]
    /\ UNCHANGED <<opts, status, pc, issued, call, networkInterfaces>>

GetFirstIdAt(g) ==
    \E timestamp \in QueryTimestamps(snowflake[g]) :
    /\ status[g] = "ok" /\ pc[g] = "idle"
    /\ ret' = [ret EXCEPT ![g] = Ret("getFirstIdAt", timestamp,
                                     getFirstIdAtTimestamp(snowflake[g], timestamp))]
    /\ UNCHANGED <<opts, status, snowflake, pc, issued, call, networkInterfaces>>

GetLastIdAt(g) ==
    \E timestamp \in QueryTimestamps(snowflake[g]) :
    /\ status[g] = "ok" /\ pc[g] = "idle"
    /\ ret' = [ret EXCEPT ![g] = Ret("getLastIdAt", timestamp,
                                     getLastIdAtTimestamp(snowflake[g], timestamp))]
    /\ UNCHANGED <<opts, status, snowflake, pc, issued, call, networkInterfaces>>

\* what a caller may hand to parseId: any value, or the id it was just given
ParseInputs(g) == IdInputs \cup (IF ret[g].id # <<>> THEN {Str(ret[g].id)} ELSE {})

ParseId(g) ==
    \E id \in ParseInputs(g) :
    /\ status[g] = "ok" /\ pc[g] = "idle"
    /\ ret' = [ret EXCEPT ![g] = Ret("parseId", id, CustomParseId(snowflake[g], id))]
    /\ UNCHANGED <<opts, status, snowflake, pc, issued, call, networkInterfaces>>

Next ==
    \E g \in {1} :
        \/ \E o \in Options, now \in Clock, ifs \in InterfaceLists :
                Construct(g, o, now, ifs)
        \/ \E timestamp \in Clock : NextIdCall(g, timestamp, MaxIds)
        \/ \E timestamp \in Clock : SpinRead(g, timestamp)
        \/ \E timestamp \in Clock : WaitRead(g, timestamp)
        \/ GetFirstIdAt(g)
        \/ GetLastIdAt(g)
        \/ ParseId(g)

Spec == Init /\ [][Next]_vars

\* Two generators, as on two machines: their calls interleave freely
NextTwo ==
    \E g \in Gens :
        \/ \E o \in OptionsTwo, now \in Clock, ifs \in InterfaceLists :
                Construct(g, o, now, ifs)
        \/ \E timestamp \in Clock : NextIdCall(g, timestamp, MaxIds)
        \/ \E timestamp \in Clock : SpinRead(g, timestamp)
        \/ \E timestamp \in Clock : WaitRead(g, timestamp)

SpecTwo == Init /\ [][NextTwo]_vars

\* The readings a loop of nextId can get: the clock is not held at or below
\* lastTimestamp by the bound MaxClock
ClockAfter(g) == 0 .. ToNumber(snowflake[g].lastTimestamp) + 1

\* A reading inside a loop of nextId that is strictly greater than lastTimestamp
LaterRead(g) ==
    \E timestamp \in ClockAfter(g) :
        /\ timestamp > ToNumber(snowflake[g].lastTimestamp)
        /\ \/ SpinRead(g, timestamp)
           \/ WaitRead(g, timestamp)

\* The loop of lines 69-71 reads the clock once more
SpinLoop(g) == \E timestamp \in ClockAfter(g) : SpinRead(g, timestamp)

\* The loop of waitNextMillis reads the clock once more
WaitLoop(g) == \E timestamp \in ClockAfter(g) : WaitRead(g, timestamp)

\* One generator, its calls of nextId and the readings of their loops
NextLive ==
    \E g \in {1} :
        \/ \E o \in OptionsTwo, now \in Clock, ifs \in InterfaceLists :
                Construct(g, o, now, ifs)
        \/ \E timestamp \in Clock : NextIdCall(g, timestamp, MaxIds)
        \/ SpinLoop(g)
        \/ WaitLoop(g)

\* The loops of lines 60-62 and 69-71 read the clock again without pause, and
\* the clock is assumed to read past lastTimestamp eventually
SpecLive == Init /\ [][NextLive]_vars /\ WF_vars(LaterRead(1))

----------------------------------------------------------------------------
(* Properties *)

\* An id string read as an integer
IdValue(id) == StringToBigInt(id).val

Constructed == {g \in Gens : status[g] = "ok"}

\* The option MachineId lies outside 0 .. 2^machineIdBits - 1
SuppliedOutOfRange(g) ==
    /\ opts[g].MachineId.t = "number"
    /\ \/ opts[g].MachineId.v < 0
       \/ opts[g].MachineId.v > Pow2(snowflake[g].machineIdBits) - 1

\* C1: on one generator every id nextId returns is, as an integer, strictly
\* greater than every id it returned before.
C1_StrictlyIncreasing ==
    \A g \in Gens : \A i, j \in 1 .. Len(issued[g]) :
        i < j => IdValue(issued[g][i]) < IdValue(issued[g][j])

\* C2: two generators constructed with the same MachineIdBits, SequenceBits
\* and FirstTimestamp but different MachineId never return the same id.
C2_DistinctMachinesDistinctIds ==
    \A g, h \in Constructed :
        (/\ g # h
         /\ opts[g].MachineIdBits = opts[h].MachineIdBits
         /\ opts[g].SequenceBits = opts[h].SequenceBits
         /\ opts[g].FirstTimestamp = opts[h].FirstTimestamp
         /\ opts[g].MachineId # opts[h].MachineId)
        => \A i \in 1 .. Len(issued[g]), j \in 1 .. Len(issued[h]) :
              issued[g][i] # issued[h][j]

\* C3: no generator is constructed from a MachineId below 0 or above
\* 2^machineIdBits - 1.
C3_OutOfRangeMachineIdRejected ==
    \A g \in Constructed : ~SuppliedOutOfRange(g)

\* C4: parseId of an id that newId returned gives the configured machine id
\* and a sequence within 0 .. 2^sequenceBits - 1.
C4_ParseRecoversMachineId ==
    \A g \in Constructed :
        (/\ ret[g].op = "parseId"
         /\ \E i \in 1 .. Len(issued[g]) : ret[g].arg = Str(issued[g][i]))
        => /\ ret[g].ok
           /\ ret[g].parsed.machineId = snowflake[g].machineId
           /\ ret[g].parsed.sequence \in 0 .. Pow2(snowflake[g].sequenceBits) - 1

\* C5: every id returned by nextId, getFirstIdAtTimestamp or
\* getLastIdAtTimestamp is in 0 .. 2^(timestampBits + 22) - 1 (the sign bit
\* is unused) and its timestamp field id >> 22 is at most maxTimestamp.
C5_IdWithinLayout ==
    \A g \in Constructed :
        (ret[g].op \in {"newId", "getFirstIdAt", "getLastIdAt"} /\ ret[g].ok)
        => /\ IdValue(ret[g].id) >= 0
           /\ IdValue(ret[g].id) < Pow2(timestampBits + TotalBits)
           /\ Shr(IdValue(ret[g].id), TotalBits) <= Pow2(timestampBits) - 1

\* A string of decimal digits and nothing else
IsDecimalString(x) == x.t = "string" /\ AllDigits(x.v)

\* C6: parseId returns a result exactly for the strings of decimal digits and
\* fails for every other input.
C6_ParseRejectsInvalid ==
    \A g \in Constructed :
        ret[g].op = "parseId" => (ret[g].ok <=> IsDecimalString(ret[g].arg))

\* C7: a generator is constructed only with both bit widths greater than 0
\* and summing to 22, the supplied widths being the ones used; supplied
\* widths that break this make construction fail.
C7_OnlyValidBitWidths ==
    /\ \A g \in Constructed :
          LET gen == snowflake[g] IN
          /\ gen.machineIdBits > 0 /\ gen.sequenceBits > 0
          /\ gen.machineIdBits + gen.sequenceBits = TotalBits
          /\ opts[g].MachineIdBits.t = "number"
                => gen.machineIdBits = opts[g].MachineIdBits.v
          /\ opts[g].SequenceBits.t = "number"
                => gen.sequenceBits = opts[g].SequenceBits.v
    /\ \A g \in Gens :
          (/\ status[g] # "none"
           /\ opts[g].MachineIdBits.t = "number" /\ opts[g].SequenceBits.t = "number"
           /\ \/ opts[g].MachineIdBits.v + opts[g].SequenceBits.v # TotalBits
              \/ opts[g].MachineIdBits.v <= 0 \/ opts[g].SequenceBits.v <= 0)
          => status[g] = "failed"

C7_Witness ==
    \E g \in Constructed :
        /\ opts[g].MachineIdBits = Num(21) /\ opts[g].SequenceBits = Undefined
        /\ snowflake[g].sequenceBits = 1

\* C8: a generator constructed with a FirstTimestamp of 0 or later has that
\* value as its epoch: getFirstIdAt(FirstTimestamp) returns "0" and
\* parseId("0") gives FirstTimestamp as the timestamp.
C8_FirstTimestampIsEpoch ==
    \A g \in Constructed :
        (opts[g].FirstTimestamp.t \in {"number", "date"} /\ opts[g].FirstTimestamp.v >= 0)
        => /\ (ret[g].op = "getFirstIdAt" /\ ret[g].arg = opts[g].FirstTimestamp)
                => (ret[g].ok /\ ret[g].id = <<"0">>)
           /\ (ret[g].op = "parseId" /\ ret[g].arg = Str(<<"0">>))
                => (ret[g].ok /\ ret[g].parsed.timestamp.v = opts[g].FirstTimestamp.v)

IsTime(x) == x.t \in {"number", "date"}

\* C9: for every timestamp T >= epoch, getFirstIdAtTimestamp(T) and
\* getLastIdAtTimestamp(T) return ids, and parseId of them is
\* {T, 0, 0} and {T, maxMachineId, maxSequence}.
C9_BoundaryRoundTrip ==
    \A g \in {c \in Constructed : ret[c].op = "parseId"} :
        LET gen == snowflake[g] IN
        \A T \in {x \in QueryTimestamps(gen) : IsTime(x) /\ x.v >= gen.EPOCH} :
            LET first == getFirstIdAtTimestamp(gen, T)
                last == getLastIdAtTimestamp(gen, T)
            IN /\ first.ok /\ last.ok
               /\ ret[g].arg = Str(first.id)
                    => /\ ret[g].ok
                       /\ ret[g].parsed = [timestamp |-> DateOf(T.v), machineId |-> 0,
                                           sequence |-> 0]
               /\ ret[g].arg = Str(last.id)
                    => /\ ret[g].ok
                       /\ ret[g].parsed = [timestamp |-> DateOf(T.v),
                                           machineId |-> Pow2(gen.machineIdBits) - 1,
                                           sequence |-> Pow2(gen.sequenceBits) - 1]

C9_Witness ==
    \E g \in Constructed :
        /\ ret[g].op = "parseId"
        /\ ret[g].arg = Str(getLastIdAtTimestamp(snowflake[g],
                                                 Num(snowflake[g].EPOCH + 2)).id)
        /\ snowflake[g].EPOCH > 0
        /\ ret[g].parsed.timestamp = DateOf(snowflake[g].EPOCH + 2)

\* C10: for every timestamp T with T - 1 >= epoch,
\* getLastIdAtTimestamp(T-1) < getFirstIdAtTimestamp(T) <= getLastIdAtTimestamp(T)
\* < getFirstIdAtTimestamp(T+1) as integers; and an id of nextId whose
\* timestamp field is T - epoch, T >= epoch, lies between
\* getFirstIdAtTimestamp(T) and getLastIdAtTimestamp(T).
C10_BoundaryOrdering ==
    \A g \in Constructed :
        LET gen == snowflake[g]
            First(T) == IdValue(getFirstIdAtTimestamp(gen, Num(T)).id)
            Last(T) == IdValue(getLastIdAtTimestamp(gen, Num(T)).id)
            T == ret[g].arg.v
        IN /\ (ret[g].op = "getFirstIdAt" /\ IsTime(ret[g].arg) /\ T - 1 >= gen.EPOCH)
                => /\ ret[g].ok
                   /\ Last(T - 1) < IdValue(ret[g].id)
                   /\ IdValue(ret[g].id) <= Last(T)
                   /\ Last(T) < First(T + 1)
           /\ (ret[g].op = "getLastIdAt" /\ IsTime(ret[g].arg) /\ T - 1 >= gen.EPOCH)
                => /\ ret[g].ok
                   /\ Last(T - 1) < First(T)
                   /\ First(T) <= IdValue(ret[g].id)
                   /\ IdValue(ret[g].id) < First(T + 1)
           /\ \A i \in {k \in 1 .. Len(issued[g]) : ret[g].op = "newId"} :
                LET field == parseId(gen, Str(issued[g][i])).parsed.timestamp.v IN
                field >= gen.EPOCH
                    => /\ First(field) <= IdValue(issued[g][i])
                       /\ IdValue(issued[g][i]) <= Last(field)

C10_Witness ==
    \E g \in Constructed :
        /\ ret[g].op = "getFirstIdAt" /\ ret[g].ok
        /\ ret[g].arg.v - 1 >= snowflake[g].EPOCH
        /\ Len(issued[g]) >= 2
        /\ parseId(snowflake[g], Str(issued[g][2])).parsed.timestamp.v
              > snowflake[g].EPOCH

\* C11: getFirstIdAtTimestamp and getLastIdAtTimestamp, given a number of
\* milliseconds or a Date, fail with an error exactly when that timestamp is
\* strictly before the epoch; the epoch itself is accepted and gives an id.
C11_FailsExactlyBeforeEpoch ==
    \A g \in Constructed :
        (ret[g].op \in {"getFirstIdAt", "getLastIdAt"} /\ IsTime(ret[g].arg))
            => /\ ret[g].ok <=> ret[g].arg.v >= snowflake[g].EPOCH
               /\ ret[g].ok => /\ ret[g].id # <<>>
                               /\ AllDigits(ret[g].id)
               /\ ~ret[g].ok => ret[g].err # ""

C11_Witness ==
    \E g \in Constructed :
        /\ ret[g].op = "getLastIdAt"
        /\ ret[g].arg = DateOf(snowflake[g].EPOCH)
        /\ snowflake[g].EPOCH > 0
        /\ ret[g].ok

\* The fields parseId reads from the i-th id nextId returned
Field(g, i) == parseId(snowflake[g], Str(issued[g][i])).parsed

\* C12: among the ids one generator has issued, at most 2^sequenceBits carry
\* the same timestamp field, no two carry the same (timestamp, sequence) pair,
\* and once 2^sequenceBits ids carry one timestamp the next id carries a
\* later one.
C12_RateBound ==
    \A g \in Constructed :
        LET n == Len(issued[g])
            Same(i) == {j \in 1 .. n : Field(g, j).timestamp = Field(g, i).timestamp}
        IN /\ \A i \in 1 .. n : Cardinality(Same(i)) <= Pow2(snowflake[g].sequenceBits)
           /\ \A i, j \in 1 .. n :
                (i < j) => \/ Field(g, i).timestamp # Field(g, j).timestamp
                           \/ Field(g, i).sequence # Field(g, j).sequence
           /\ \A i \in 1 .. n - 1 :
                Cardinality({j \in Same(i) : j <= i}) = Pow2(snowflake[g].sequenceBits)
                    => Field(g, i + 1).timestamp.v > Field(g, i).timestamp.v

\* C13: in every reachable state of a generator lastTimestamp >= epoch and
\* 0 <= sequence <= maxSequence.
C13_StateInvariant ==
    \A g \in Constructed :
        /\ ToNumber(snowflake[g].lastTimestamp) >= snowflake[g].EPOCH
        /\ snowflake[g].sequence >= 0
        /\ snowflake[g].sequence <= snowflake[g].maxSequence

C13_Witness ==
    \E g \in Constructed :
        /\ Len(issued[g]) = 2
        /\ snowflake[g].lastTimestamp = BigIntOf(snowflake[g].EPOCH)
        /\ snowflake[g].sequence = snowflake[g].maxSequence
        /\ call[g].t = snowflake[g].EPOCH

\* C14: for every timestamp T >= epoch getFirstIdAtTimestamp(T) returns the
\* decimal string of (T - epoch) * 2^(machineIdBits + sequenceBits), whatever
\* the machine id: with widths 10/12 and machine id 5, T = epoch + 1 gives
\* "4194304".  getLastIdAtTimestamp(T) returns that value plus 2^22 - 1.
C14_BoundaryValues ==
    \A g \in Constructed :
        LET gen == snowflake[g]
            T == ret[g].arg.v
            base == (T - gen.EPOCH) * Pow2(gen.machineIdBits + gen.sequenceBits)
        IN /\ (ret[g].op = "getFirstIdAt" /\ IsTime(ret[g].arg) /\ T >= gen.EPOCH)
                => /\ ret[g].ok
                   /\ ret[g].id = NatToString(base)
                   /\ (/\ gen.machineIdBits = 10 /\ gen.sequenceBits = 12
                       /\ gen.machineId = 5 /\ T = gen.EPOCH + 1)
                        => ret[g].id = <<"4", "1", "9", "4", "3", "0", "4">>
           /\ (ret[g].op = "getLastIdAt" /\ IsTime(ret[g].arg) /\ T >= gen.EPOCH)
                => /\ ret[g].ok
                   /\ ret[g].id = NatToString(base + Pow2(22) - 1)

C14_Witness ==
    \E g \in Constructed :
        /\ ret[g].op = "getFirstIdAt"
        /\ snowflake[g].machineIdBits = 10 /\ snowflake[g].sequenceBits = 12
        /\ snowflake[g].machineId = 5
        /\ ret[g].arg = Num(snowflake[g].EPOCH + 1)
        /\ ret[g].id = <<"4", "1", "9", "4", "3", "0", "4">>

\* C15: a call of nextId that reads the clock below lastTimestamp does not
\* return until the clock reads at least lastTimestamp, and the timestamp a
\* call issues (the new lastTimestamp) is never below the lastTimestamp it
\* found.
C15_TimestampNeverDecreases ==
    \A g \in Constructed :
        LET before == ToNumber(call[g].last) IN
        /\ pc[g] = "spin"
            => /\ call[g].read < before
               /\ snowflake[g].lastTimestamp = call[g].last
        /\ (pc[g] = "idle" /\ call[g] # NoCall)
            => /\ call[g].read >= before
               /\ snowflake[g].lastTimestamp = BigIntOf(call[g].read)
               /\ ToNumber(snowflake[g].lastTimestamp) >= before

C15_Witness ==
    \E g \in Constructed :
        /\ pc[g] = "spin"
        /\ Len(issued[g]) = 2
        /\ call[g].read < ToNumber(call[g].last)
        /\ snowflake[g].lastTimestamp = BigIntOf(snowflake[g].EPOCH + 1)

\* The last call of nextId on g reached line 74 (it is past the loop of
\* lines 69-71)
AtSequence(g) == call[g] # NoCall /\ pc[g] # "spin"

\* C16: a call of nextId in the millisecond of lastTimestamp with
\* sequence = maxSequence raises no error; it waits until the clock reads
\* strictly more than lastTimestamp and returns an id with that new timestamp
\* and sequence 0.
C16_SequenceExhaustion ==
    \A g \in Constructed :
        LET before == ToNumber(call[g].last) IN
        (AtSequence(g) /\ call[g].t = before /\ call[g].seq = snowflake[g].maxSequence)
            => /\ ret[g].op = "newId" => ret[g].ok
               /\ pc[g] = "wait"
                    => /\ call[g].read <= before
                       /\ snowflake[g].lastTimestamp = call[g].last
               /\ pc[g] = "idle"
                    => /\ call[g].read > before
                       /\ snowflake[g].lastTimestamp = BigIntOf(call[g].read)
                       /\ snowflake[g].sequence = 0
                       /\ Field(g, Len(issued[g])).timestamp = DateOf(call[g].read)
                       /\ Field(g, Len(issued[g])).sequence = 0

\* C17: in every call of nextId whose clock reading t equals lastTimestamp,
\* the first call on a fresh generator (lastTimestamp = epoch) included, the
\* sequence becomes (previous sequence + 1) mod (maxSequence + 1).
C17_SameMillisecondIncrements ==
    \A g \in Constructed :
        (AtSequence(g) /\ call[g].t = ToNumber(call[g].last))
            => snowflake[g].sequence
                 = (call[g].seq + 1) % (snowflake[g].maxSequence + 1)

\* C18: in every call of nextId whose clock reading t is strictly greater
\* than lastTimestamp the sequence is reset to 0, lastTimestamp becomes t, and
\* the id returned has timestamp field t - epoch and sequence field 0.
C18_LaterMillisecondResets ==
    \A g \in Constructed :
        LET gen == snowflake[g]
            id == IdValue(issued[g][Len(issued[g])])
        IN (AtSequence(g) /\ call[g].t > ToNumber(call[g].last))
            => /\ pc[g] = "idle"
               /\ gen.sequence = 0
               /\ gen.lastTimestamp = BigIntOf(call[g].t)
               /\ ret[g].op = "newId" => ret[g].id = issued[g][Len(issued[g])]
               /\ Shr(id, gen.machineIdBits + gen.sequenceBits) = call[g].t - gen.EPOCH
               /\ BitAnd(id, gen.maxSequence) = 0

\* C19: if the clock eventually reads a value strictly greater than
\* lastTimestamp, every call of nextId eventually returns an id; while the
\* clock is stuck at or held below lastTimestamp the call does not return, and
\* nextId never raises an error.
C19_NextIdTerminates ==
    /\ (pc[1] # "idle") ~> (pc[1] = "idle" /\ ret[1].op = "newId" /\ ret[1].ok)
    /\ [](ret[1].op = "newId" => ret[1].ok)
    /\ [][/\ (pc[1] = "spin" /\ call'[1].read < ToNumber(snowflake[1].lastTimestamp))
              => (pc'[1] = "spin" /\ issued'[1] = issued[1] /\ ret'[1] = ret[1])
          /\ (pc[1] = "wait" /\ call'[1].read <= ToNumber(snowflake[1].lastTimestamp))
              => (pc'[1] = "wait" /\ issued'[1] = issued[1] /\ ret'[1] = ret[1])]_vars

C19_Witness ==
    /\ pc[1] = "wait"
    /\ Len(issued[1]) = 2
    /\ call[1].read < ToNumber(snowflake[1].lastTimestamp)

\* The addresses of one interface that are IPv4 and not internal
NonInternalIPv4(values) ==
    {i \in 1 .. Len(values) : values[i].family = "IPv4" /\ ~values[i].internal}

\* C20: a generator constructed without a machine id has as machine id the
\* hardware address of the first network interface, in listing order, that
\* has a non-internal IPv4 address, masked to maxMachineId; 0 when there is no
\* such interface; in every case a value in 0 .. maxMachineId.
C20_GeneratedMachineId ==
    \A g \in Constructed :
        IsNullish(opts[g].MachineId)
            => LET gen == snowflake[g]
                   listing == networkInterfaces[g]
                   with == {k \in 1 .. Len(listing) : NonInternalIPv4(listing[k]) # {}}
                   first == CHOOSE k \in with : \A j \in with : k <= j
                   item == CHOOSE i \in NonInternalIPv4(listing[first]) :
                               \A j \in NonInternalIPv4(listing[first]) : i <= j
               IN /\ gen.machineId >= 0 /\ gen.machineId <= gen.maxMachineId
                  /\ with = {} => gen.machineId = 0
                  /\ with # {} => gen.machineId
                                    = BitAnd(listing[first][item].mac, gen.maxMachineId)

\* C21: a generator constructed with neither MachineIdBits nor SequenceBits
\* uses the widths 10 and 12; with exactly one of them given the other is 22
\* minus it; with FirstTimestamp absent the epoch is 2024-01-01T00:00:00.000Z.
C21_DefaultsAndDerivedWidths ==
    \A g \in Constructed :
        LET o == opts[g]
            gen == snowflake[g]
        IN /\ (IsNullish(o.MachineIdBits) /\ IsNullish(o.SequenceBits))
                => (gen.machineIdBits = 10 /\ gen.sequenceBits = 12)
           /\ (~IsNullish(o.MachineIdBits) /\ IsNullish(o.SequenceBits))
                => /\ gen.machineIdBits = o.MachineIdBits.v
                   /\ gen.sequenceBits = 22 - o.MachineIdBits.v
           /\ (IsNullish(o.MachineIdBits) /\ ~IsNullish(o.SequenceBits))
                => /\ gen.sequenceBits = o.SequenceBits.v
                   /\ gen.machineIdBits = 22 - o.SequenceBits.v
           /\ IsNullish(o.FirstTimestamp)
                => /\ gen.EPOCH = DefaultEpoch
                   /\ gen.firstTimestamp = DateOf(DefaultEpoch)

C21_Witness ==
    \E g \in Constructed :
        /\ IsNullish(opts[g].MachineIdBits)
        /\ opts[g].SequenceBits = Num(1)
        /\ snowflake[g].machineIdBits = 21
        /\ IsNullish(opts[g].FirstTimestamp)
        /\ snowflake[g].EPOCH = DefaultEpoch

\* C22: getFirstIdAtTimestamp, getLastIdAtTimestamp and parseId, returning or
\* failing, leave lastTimestamp and sequence (and every other field of the
\* generator) as they were; so a call of nextId finds the lastTimestamp and
\* sequence the previous call of nextId left, whatever was asked in between.
C22_QueriesFrame ==
    [][\A g \in Gens :
        /\ (ret'[g] # ret[g] /\ ret'[g].op \in {"getFirstIdAt", "getLastIdAt", "parseId"})
            => /\ snowflake'[g] = snowflake[g]
               /\ issued'[g] = issued[g]
               /\ pc'[g] = pc[g]
               /\ call'[g] = call[g]
        /\ (pc[g] = "idle" /\ call'[g] # call[g])
            => IF issued[g] = <<>>
               THEN /\ call'[g].last = snowflake[g].firstTimestamp
                    /\ call'[g].seq = 0
               ELSE /\ call'[g].last = BigIntOf(call[g].read)
                    /\ call'[g].seq = BitAnd(IdValue(issued[g][Len(issued[g])]),
                                             snowflake[g].maxSequence)]_vars

C22_Witness ==
    \E g \in Constructed :
        /\ ret[g].op = "getLastIdAt" /\ ~ret[g].ok
        /\ Len(issued[g]) = 2
        /\ snowflake[g].sequence = 1
        /\ snowflake[g].lastTimestamp = BigIntOf(call[g].read)

\* C23: for every id nextId returns, parseId(id).timestamp equals the
\* generator's lastTimestamp right after that call, which is the clock reading
\* the id was issued at and is >= the epoch.
C23_ParsedTimestampIsLastTimestamp ==
    \A g \in Constructed :
        (ret[g].op = "newId" /\ pc[g] = "idle")
            => LET gen == snowflake[g]
                   parsed == parseId(gen, Str(ret[g].id))
               IN /\ ret[g].ok /\ parsed.ok
                  /\ gen.lastTimestamp = BigIntOf(call[g].read)
                  /\ call[g].read >= gen.EPOCH
                  /\ parsed.parsed.timestamp = DateOf(ToNumber(gen.lastTimestamp))

====
